---- MODULE Spec2Model ----
(***************************************************************************)
(* Model of demo_app.py, the Moodle engagement dashboard.                  *)
(*                                                                         *)
(* The script is a Streamlit page: every user interaction (upload, widget  *)
(* change, button press) re-runs the whole script top to bottom against    *)
(* the current widget values.  One action of the model is one interaction  *)
(* followed by the complete script pass it triggers.  The only state that  *)
(* survives a pass is the uploaded file, the widget values and             *)
(* st.session_state.notif_log; everything else is recomputed.              *)
(*                                                                         *)
(* Strings that the code inspects character by character (student names,   *)
(* the name search, the coordinator address) are sequences of one-char     *)
(* strings.  Timestamps are whole days (every use in the code normalises   *)
(* to the day) counted from the day of the session, which is taken to lie  *)
(* within one calendar day.                                                *)
(***************************************************************************)
EXTENDS Integers, Sequences, FiniteSets, TLC

VARIABLES
    file,               \* rows of the uploaded CSV, or NoFile
    course,             \* sidebar selectbox "Course / Context"
    origin,             \* sidebar selectbox "Origin"
    selected_events,    \* sidebar multiselect
    date_range,         \* sidebar date_input, <<start_date, end_date>>
    lookback_days,      \* sidebar slider 3..30
    risk_inactive_days, \* sidebar slider 7..60
    search_name,        \* sidebar text_input
    coord_mail,         \* text_input "Coordinator e-mail"
    smtp_port,          \* int(os.getenv("SMTP_PORT", "587"))
    smtp_creds,         \* what SMTP_USER / SMTP_PASS hold
    notif_log,          \* st.session_state.notif_log
    ok_sends,           \* number of send_message calls that returned normally
    out                 \* what the last script pass computed and displayed

vars == <<file, course, origin, selected_events, date_range, lookback_days,
          risk_inactive_days, search_name, coord_mail, smtp_port, smtp_creds,
          notif_log, ok_sends, out>>

----------------------------------------------------------------------------
(* Bounds of the model *)

MaxPast == 4        \* window files hold dates clock0-MaxPast .. clock0+MaxFuture
MaxFuture == 1
MaxLookback == 8    \* largest slider position explored (the slider goes to 30)
MaxStudents == 3    \* students per cohort file
MaxLog == 2         \* successful sends explored per session

(* Program constants *)

MinLookback == 3
DefaultLookback == 7
MinRisk == 7
DefaultRisk == 14
PortStartTls == 587
PortSsl == 465

\* pd.Timestamp.now().normalize(), the origin of the day count
today == 0

NoFile == <<>>
NaN == "NaN"
All == "(All)"
AT_RISK == "At Risk"
WARNING == "Warning"
ACTIVE == "Active"

----------------------------------------------------------------------------
(* Python / pandas primitives the script relies on *)

Ord(c) ==
    CASE c = " " -> 32 [] c = "@" -> 64
      [] c = "A" -> 65 [] c = "B" -> 66 [] c = "D" -> 68 [] c = "N" -> 78
      [] c = "a" -> 97 [] c = "b" -> 98 [] c = "d" -> 100
      [] c = "n" -> 110 [] c = "o" -> 111

LowerChar(c) ==
    CASE c = "A" -> "a" [] c = "B" -> "b" [] c = "D" -> "d" [] c = "N" -> "n"
      [] OTHER -> c

Lower(s) == [i \in 1..Len(s) |-> LowerChar(s[i])]

IsSpace(c) == c = " "

RECURSIVE Strip(_)
Strip(s) ==
    IF s = <<>> THEN s
    ELSE IF IsSpace(Head(s)) THEN Strip(Tail(s))
    ELSE IF IsSpace(s[Len(s)]) THEN Strip(SubSeq(s, 1, Len(s) - 1))
    ELSE s

\* str.contains(pat, case=False) for a pattern without regex metacharacters
Contains(s, pat) ==
    \E i \in 0..(Len(s) - Len(pat)) :
        SubSeq(Lower(s), i + 1, i + Len(pat)) = Lower(pat)

RECURSIVE StrLess(_, _)
StrLess(a, b) ==
    IF b = <<>> THEN FALSE
    ELSE IF a = <<>> THEN TRUE
    ELSE IF Ord(Head(a)) < Ord(Head(b)) THEN TRUE
    ELSE IF Ord(Head(a)) > Ord(Head(b)) THEN FALSE
    ELSE StrLess(Tail(a), Tail(b))

fillna(v, x) == IF v = NaN THEN x ELSE v

SetMax(S) == CHOOSE m \in S : \A x \in S : x <= m
SetMin(S) == CHOOSE m \in S : \A x \in S : m <= x

Range(s) == {s[i] : i \in 1..Len(s)}

\* the keys of a groupby, in the order groupby(sort=True) yields them
RECURSIVE SortedNames(_)
SortedNames(S) ==
    IF S = {} THEN <<>>
    ELSE LET m == CHOOSE x \in S : \A y \in S \ {x} : StrLess(x, y)
         IN  <<m>> \o SortedNames(S \ {m})

----------------------------------------------------------------------------
(* Lines 29-52: read_csv, to_datetime(errors="coerce"), dropna, Date *)

\* a raw row carries Time as <<day>> when the text parses and <<>> when it
\* is coerced to NaT
ParseFile(raw) ==
    LET ok == SelectSeq(raw, LAMBDA r : r.Time # <<>>)
    IN  [i \in 1..Len(ok) |->
            [name |-> ok[i].name, Date |-> ok[i].Time[1], ctx |-> ok[i].ctx,
             event |-> ok[i].event, Origin |-> ok[i].Origin]]

(* Lines 59-106: the option lists and defaults of the sidebar widgets *)

course_options(df) == {All} \cup {r.ctx : r \in Range(df)}

origin_options(df) == {All} \cup {fillna(r.Origin, "(blank)") : r \in Range(df)}

default_origin(df) == IF "web" \in origin_options(df) THEN "web" ELSE All

event_options(df) == {r.event : r \in Range(df)}

default_events == {"Course viewed", "Section viewed", "Page viewed",
    "Resource viewed", "URL viewed", "File viewed", "Assignment viewed",
    "Assignment submitted", "Quiz attempted", "Quiz submission submitted",
    "Forum discussion viewed", "Post created", "Course module viewed"}

\* the fallback event_options[:min(8, len)] is all of the options here:
\* no file of the model has more than 8 distinct event names
default_selected(df) ==
    IF default_events \cap event_options(df) # {}
    THEN default_events \cap event_options(df)
    ELSE event_options(df)

min_dt(df) == SetMin({r.Date : r \in Range(df)})
max_dt(df) == SetMax({r.Date : r \in Range(df)})

----------------------------------------------------------------------------
(* Lines 117-137: the filters *)

DropCli_kept(f) == f

DropCli(f) == SelectSeq(f, LAMBDA r : fillna(r.Origin, "") # "cli")

ApplyFilters(df, w) ==
    LET f1 == IF w.course # All
              THEN SelectSeq(df, LAMBDA r : r.ctx = w.course) ELSE df
        f2 == IF w.origin # All
              THEN SelectSeq(f1, LAMBDA r : fillna(r.Origin, "(blank)") = w.origin)
              ELSE f1
        f3 == SelectSeq(f2, LAMBDA r : r.Date >= w.date_range[1]
                                       /\ r.Date <= w.date_range[2])
        f4 == IF w.selected_events # {}
              THEN SelectSeq(f3, LAMBDA r : r.event \in w.selected_events)
              ELSE f3
    IN  DropCli(f4)

FilterEmpty_never(f) == FALSE

FilterEmpty(f) == f = <<>>

----------------------------------------------------------------------------
(* Lines 146-175: aggregation and classification *)

content_view_events == {"Section viewed", "Page viewed", "Resource viewed",
    "URL viewed", "File viewed", "Course module viewed"}
submission_events == {"Assignment submitted", "Quiz attempted",
    "Quiz submission submitted", "Post created"}

ActiveDays(dates, cutoff) == Cardinality({d \in dates : d >= cutoff})

status_row_warning_first(inactive_days, active_days, threshold) ==
    IF active_days <= 2 /\ inactive_days <= threshold THEN WARNING
    ELSE IF inactive_days > threshold THEN AT_RISK
    ELSE ACTIVE

status_row(inactive_days, active_days, threshold) ==
    IF inactive_days > threshold \/ active_days = 0 THEN AT_RISK
    ELSE IF active_days <= 2 THEN WARNING
    ELSE ACTIVE

Summarise(f, now, lookback, threshold) ==
    LET cutoff == now - lookback
        keys == SortedNames({r.name : r \in Range(f)})
        row(n) ==
            LET g == SelectSeq(f, LAMBDA r : r.name = n)
                last == SetMax({r.Date : r \in Range(g)})
                act == ActiveDays({r.Date : r \in Range(g)}, cutoff)
            IN  [name |-> n,
                 last_access |-> last,
                 total_events |-> Len(g),
                 active_days |-> act,
                 content_views |-> Len(SelectSeq(g, LAMBDA r : r.event \in content_view_events)),
                 course_views |-> Len(SelectSeq(g, LAMBDA r : r.event = "Course viewed")),
                 submissions |-> Len(SelectSeq(g, LAMBDA r : r.event \in submission_events)),
                 inactive_days |-> now - last,
                 status |-> status_row(now - last, act, threshold)]
    IN  [i \in 1..Len(keys) |-> row(keys[i])]

----------------------------------------------------------------------------
(* Lines 178-186: name search and sort *)

NameSearch(summary, search) ==
    IF Strip(search) # <<>>
    THEN SelectSeq(summary, LAMBDA r : Contains(r.name, search))
    ELSE summary

status_rank(s) == CASE s = AT_RISK -> 0 [] s = WARNING -> 1 [] s = ACTIVE -> 2

\* a goes before b under sort_values(["status_rank","inactive_days"],
\* ascending=[True, False])
SortsBefore_ascending(a, b) ==
    \/ status_rank(a.status) < status_rank(b.status)
    \/ /\ status_rank(a.status) = status_rank(b.status)
       /\ a.inactive_days < b.inactive_days

SortsBefore(a, b) ==
    \/ status_rank(a.status) < status_rank(b.status)
    \/ /\ status_rank(a.status) = status_rank(b.status)
       /\ a.inactive_days > b.inactive_days

RECURSIVE Insert(_, _)
Insert(r, s) ==
    IF s = <<>> THEN <<r>>
    ELSE IF SortsBefore(r, Head(s)) THEN <<r>> \o s
    ELSE <<Head(s)>> \o Insert(r, Tail(s))

\* stable: a row is inserted behind the rows it ties with
RECURSIVE SortSummary(_)
SortSummary(s) ==
    IF s = <<>> THEN <<>>
    ELSE Insert(s[Len(s)], SortSummary(SubSeq(s, 1, Len(s) - 1)))

AtRisk_not_active(summary) == SelectSeq(summary, LAMBDA r : r.status # ACTIVE)

AtRisk(summary) == SelectSeq(summary, LAMBDA r : r.status = AT_RISK)

----------------------------------------------------------------------------
(* Lines 232-312: the alert *)

\* what SMTP_USER / SMTP_PASS hold: "none" (unset or empty), "ascii",
\* "smart" (non-ASCII characters that _to_ascii replaces or drops, leaving a
\* non-empty string), "non_ascii" (nothing is left after _to_ascii)
CredKinds == {"none", "ascii", "smart", "non_ascii"}

\* login_user and login_pass (line 284)
CanLogin(creds) == creds \in {"ascii", "smart"}

\* line 272
CredsAltered(creds) == creds \in {"smart", "non_ascii"}

SmtpUser == <<"b", "o", "b", "@", "b">>

NothingToNotify_never(at_risk) == FALSE

NothingToNotify(at_risk) == at_risk = <<>>

\* "not coord_mail"
NoCoordinator(mail) == mail = <<>>

Compose(at_risk, mail, creds) ==
    [subject_count |-> Len(at_risk),
     header_count |-> Len(at_risk),
     lines |-> [i \in 1..Len(at_risk) |->
                   [name |-> at_risk[i].name,
                    inactive_days |-> at_risk[i].inactive_days,
                    active_days |-> at_risk[i].active_days]],
     From |-> IF creds # "none" THEN SmtpUser ELSE mail,
     To |-> mail]

DeliveryMode_ssl_fallback(port) ==
    IF port = PortStartTls THEN "starttls" ELSE "ssl"

DeliveryMode(port) ==
    IF port = PortStartTls THEN "starttls"
    ELSE IF port = PortSsl THEN "ssl"
    ELSE "unsupported"

\* how the mail server behaves during one send
Servers == {"ok", "refuses_connection", "bad_certificate", "rejects_login",
            "rejects_message"}

\* smtplib.SMTP / SMTP_SSL, [starttls,] [login,] send_message: the calls made
\* and the exception that leaves the with-block
Transport(mode, login, server) ==
    CASE server = "refuses_connection" ->
            [connects |-> 1, sends |-> 0, raised |-> "OSError"]
      [] server = "bad_certificate" ->
            [connects |-> 1, sends |-> 0, raised |-> "SSLError"]
      [] server = "rejects_login" /\ login ->
            [connects |-> 1, sends |-> 0, raised |-> "SMTPAuthenticationError"]
      [] server = "rejects_message" ->
            [connects |-> 1, sends |-> 1, raised |-> "SMTPException"]
      [] OTHER ->
            [connects |-> 1, sends |-> 1, raised |-> "none"]

\* the except clauses, lines 302-312
FailureNotice(raised) ==
    CASE raised = "SMTPAuthenticationError" -> "auth_failed"
      [] raised = "SMTPException" -> "smtp_error"
      [] raised = "SSLError" -> "ssl_error"
      [] OTHER -> "send_failed"

\* lines 297-300 run only when the with-block was left without an exception
LogAfterSend_always(log, raised, n) == Append(log, [students |-> n])

LogAfterSend(log, raised, n) ==
    IF raised = "none" THEN Append(log, [students |-> n]) ELSE log

NoAlert == [halt |-> "end", notices |-> {}, msg |-> <<>>, smtp_connects |-> 0,
            smtp_sends |-> 0, delivered |-> 0]

\* the body of "if st.button(...)", lines 238-312
SendAlert(at_risk, mail, port, creds, server, log) ==
    IF NothingToNotify(at_risk)
    THEN [NoAlert EXCEPT !.notices = {"nothing_to_notify"}] @@ [notif_log |-> log]
    ELSE IF NoCoordinator(mail)
    THEN [NoAlert EXCEPT !.notices = {"enter_coordinator"}] @@ [notif_log |-> log]
    ELSE
        LET m == Compose(at_risk, mail, creds)
            warn == IF CredsAltered(creds) THEN {"creds_altered"} ELSE {}
            mode == DeliveryMode(port)
            t == Transport(mode, CanLogin(creds), server)
        IN  IF mode = "unsupported"
            THEN [NoAlert EXCEPT !.halt = "unsupported_port",
                                 !.notices = warn \cup {"unsupported_port"},
                                 !.msg = <<m>>] @@ [notif_log |-> log]
            ELSE [halt |-> "end",
                  notices |-> warn \cup {IF t.raised = "none" THEN "mail_sent"
                                         ELSE FailureNotice(t.raised)},
                  msg |-> <<m>>,
                  smtp_connects |-> t.connects,
                  smtp_sends |-> t.sends,
                  delivered |-> IF t.raised = "none" THEN 1 ELSE 0,
                  notif_log |-> LogAfterSend(log, t.raised, Len(at_risk))]

----------------------------------------------------------------------------
(* One pass of the script, top to bottom *)

Stopped(reason, notice, log) ==
    [halt |-> reason, notices |-> {notice}, computed |-> FALSE, f |-> <<>>,
     summary |-> <<>>, at_risk |-> <<>>, msg |-> <<>>, smtp_connects |-> 0,
     smtp_sends |-> 0, delivered |-> 0, notif_log |-> log]

RunScript(raw, w, button, server, log) ==
    IF raw = NoFile THEN Stopped("no_file", "upload_prompt", log)
    ELSE
    LET df == ParseFile(raw)
        f == ApplyFilters(df, w)
    IN  IF FilterEmpty(f)
        THEN [Stopped("empty", "no_data", log) EXCEPT !.f = f]
        ELSE
        LET classified == Summarise(f, today, w.lookback_days, w.risk_inactive_days)
            summary == SortSummary(NameSearch(classified, w.search_name))
            at_risk == AtRisk(summary)
            cards == IF at_risk = <<>> THEN {"none_at_risk"} ELSE {"cards"}
            a == IF button
                 THEN SendAlert(at_risk, w.coord_mail, smtp_port, smtp_creds,
                                server, log)
                 ELSE NoAlert @@ [notif_log |-> log]
        IN  [halt |-> a.halt, notices |-> cards \cup a.notices,
             computed |-> TRUE, f |-> f, summary |-> summary,
             at_risk |-> at_risk, msg |-> a.msg,
             smtp_connects |-> a.smtp_connects, smtp_sends |-> a.smtp_sends,
             delivered |-> a.delivered, notif_log |-> a.notif_log]

Widgets ==
    [course |-> course, origin |-> origin, selected_events |-> selected_events,
     date_range |-> date_range, lookback_days |-> lookback_days,
     risk_inactive_days |-> risk_inactive_days, search_name |-> search_name,
     coord_mail |-> coord_mail]

\* the script reached the coordinator input and the button (lines 229-237)
AlertRendered(o) == o.halt \in {"end", "unsupported_port"}

\* An interaction and the pass it triggers.  A widget that a pass does not
\* reach is not rendered and Streamlit forgets its value.
Rerun(raw, w, button, server) ==
    LET o == RunScript(raw, w, button, server, notif_log)
    IN  /\ file' = raw
        /\ course' = w.course
        /\ origin' = w.origin
        /\ selected_events' = w.selected_events
        /\ date_range' = w.date_range
        /\ lookback_days' = w.lookback_days
        /\ risk_inactive_days' = w.risk_inactive_days
        /\ search_name' = w.search_name
        /\ coord_mail' = IF AlertRendered(o) THEN w.coord_mail ELSE <<>>
        /\ notif_log' = o.notif_log
        /\ ok_sends' = ok_sends + o.delivered
        /\ out' = [halt |-> o.halt, notices |-> o.notices,
                   computed |-> o.computed, f |-> o.f, summary |-> o.summary,
                   at_risk |-> o.at_risk, button |-> button, msg |-> o.msg,
                   smtp_connects |-> o.smtp_connects,
                   smtp_sends |-> o.smtp_sends]
        /\ UNCHANGED <<smtp_port, smtp_creds>>

----------------------------------------------------------------------------
(* The interactions *)

\* line 23; the option lists of the sidebar depend on the file, so a new
\* file puts those widgets back to their defaults
Upload(raw) ==
    /\ raw # file
    /\ LET df == ParseFile(raw)
       IN  Rerun(raw, [Widgets EXCEPT !.course = All,
                                      !.origin = default_origin(df),
                                      !.selected_events = default_selected(df),
                                      !.date_range = <<min_dt(df), max_dt(df)>>],
                 FALSE, "ok")

SetCourse ==
    /\ file # NoFile
    /\ \E c \in course_options(ParseFile(file)) \ {course} :
        Rerun(file, [Widgets EXCEPT !.course = c], FALSE, "ok")

SetOrigin ==
    /\ file # NoFile
    /\ \E o \in origin_options(ParseFile(file)) \ {origin} :
        Rerun(file, [Widgets EXCEPT !.origin = o], FALSE, "ok")

SetEvents ==
    /\ file # NoFile
    /\ \E S \in (SUBSET event_options(ParseFile(file))) \ {selected_events} :
        Rerun(file, [Widgets EXCEPT !.selected_events = S], FALSE, "ok")

\* The widget offers every day from min_dt to max_dt.  A range selects the
\* rows of a run of consecutive dates of the file, or none; the ends below
\* give each of these selections once.
RangeEnds(df) ==
    LET dates == {r.Date : r \in Range(df)}
    IN  dates \cup {d + 1 : d \in {x \in dates : x < max_dt(df)}}

SetDateRange ==
    /\ file # NoFile
    /\ \E s \in RangeEnds(ParseFile(file)), e \in RangeEnds(ParseFile(file)) :
            /\ s <= e
            /\ <<s, e>> # date_range
            /\ Rerun(file, [Widgets EXCEPT !.date_range = <<s, e>>],
                     FALSE, "ok")

LookbackChoices == {MinLookback, DefaultLookback, MaxLookback}

SetLookback ==
    /\ file # NoFile
    /\ \E n \in LookbackChoices \ {lookback_days} :
        Rerun(file, [Widgets EXCEPT !.lookback_days = n], FALSE, "ok")

RiskChoices == {MinRisk, DefaultRisk}

SetThreshold ==
    /\ file # NoFile
    /\ \E n \in RiskChoices \ {risk_inactive_days} :
        Rerun(file, [Widgets EXCEPT !.risk_inactive_days = n], FALSE, "ok")

SearchChoices == {<<>>, <<" ">>, <<"A", "N">>}

SetSearch ==
    /\ file # NoFile
    /\ \E s \in SearchChoices \ {search_name} :
        Rerun(file, [Widgets EXCEPT !.search_name = s], FALSE, "ok")

MailChoices == {<<>>, <<" ", " ">>, <<"a", "@", "b">>}

SetCoordMail ==
    /\ AlertRendered(out)
    /\ \E m \in MailChoices \ {coord_mail} :
        Rerun(file, [Widgets EXCEPT !.coord_mail = m], FALSE, "ok")

\* line 237
PressSend ==
    /\ AlertRendered(out)
    /\ Len(notif_log) < MaxLog
    /\ \E server \in Servers :
        Rerun(file, Widgets, TRUE, server)

----------------------------------------------------------------------------
(* The CSV files of the model *)

Ann == <<"A", "n", "n">>
Bob == <<"B", "o", "b">>
Dan == <<"D", "a", "n">>
Nan == <<"N", "a", "n">>

\* the order in which the students' rows appear in a cohort file
RosterOrder == <<Dan, Bob, Ann, Nan>>

RawRow(n, t, c, e, o) == [name |-> n, Time |-> t, ctx |-> c, event |-> e, Origin |-> o]

\* one student, one web row on each day of a set of days
RECURSIVE DayRows(_, _)
DayRows(n, days) ==
    IF days = {} THEN <<>>
    ELSE LET d == SetMin(days)
         IN  <<RawRow(n, <<d>>, "CourseA", "Course viewed", "web")>>
             \o DayRows(n, days \ {d})

WindowFiles == {DayRows(Ann, D) : D \in (SUBSET ((0 - MaxPast)..MaxFuture)) \ {{}}}

Profiles == {"absent", "active", "warning", "stale", "batch", "mixed"}

ProfileRows(n, p) ==
    CASE p = "absent" -> <<>>
      [] p = "active" ->
            <<RawRow(n, <<0>>, "CourseA", "Course viewed", "web"),
              RawRow(n, <<-1>>, "CourseA", "Page viewed", "web"),
              RawRow(n, <<-2>>, "CourseB", "Page viewed", "web")>>
      [] p = "warning" ->
            <<RawRow(n, <<-1>>, "CourseB", "Course viewed", "web")>>
      [] p = "stale" ->
            <<RawRow(n, <<-8>>, "CourseA", "Page viewed", NaN)>>
      [] p = "batch" ->
            <<RawRow(n, <<0>>, "CourseA", "Course viewed", "cli")>>
      [] p = "mixed" ->
            <<RawRow(n, <<0>>, "CourseB", "User logged in", "cli"),
              RawRow(n, <<-8>>, "CourseA", "Course viewed", "web"),
              RawRow(n, <<>>, "CourseA", "Page viewed", "web")>>

RECURSIVE Cohort(_, _)
Cohort(assign, k) ==
    IF k = 0 THEN <<>>
    ELSE Cohort(assign, k - 1) \o ProfileRows(RosterOrder[k], assign[k])

CohortFiles ==
    {Cohort(a, MaxStudents) : a \in [1..MaxStudents -> Profiles]} \ {<<>>}

FilterFiles == {Cohort(a, 2) : a \in [1..2 -> Profiles]} \ {<<>>}

AlertFiles ==
    {Cohort(a, 2) : a \in {<<p, q>> : p \in {"warning", "stale", "batch"},
                                     q \in {"absent", "stale"}}}

Ports == {PortStartTls, PortSsl, 25}

----------------------------------------------------------------------------
(* Specifications *)

\* a session opens without a file: the script stops at line 26
Init ==
    /\ file = NoFile
    /\ course = All
    /\ origin = All
    /\ selected_events = {}
    /\ date_range = <<0, 0>>
    /\ lookback_days = DefaultLookback
    /\ risk_inactive_days = DefaultRisk
    /\ search_name = <<>>
    /\ coord_mail = <<>>
    /\ smtp_port \in Ports
    /\ smtp_creds \in CredKinds
    /\ notif_log = <<>>
    /\ ok_sends = 0
    /\ out = [halt |-> "no_file", notices |-> {"upload_prompt"},
              computed |-> FALSE, f |-> <<>>, summary |-> <<>>,
              at_risk |-> <<>>, button |-> FALSE, msg |-> <<>>,
              smtp_connects |-> 0, smtp_sends |-> 0]

\* the environment when no SMTP_* variable is set (lines 232-235)
InitDefaultEnv == Init /\ smtp_port = PortStartTls /\ smtp_creds = "none"

UploadAny == \E raw \in WindowFiles \cup CohortFiles : Upload(raw)

Next ==
    \/ UploadAny
    \/ SetCourse
    \/ SetOrigin
    \/ SetEvents
    \/ SetDateRange
    \/ SetLookback
    \/ SetThreshold
    \/ SetSearch
    \/ SetCoordMail
    \/ PressSend

Spec == Init /\ [][Next]_vars

\* sessions on one file in which the user moves the aggregation controls
UploadSummaryFile ==
    /\ file = NoFile
    /\ \E raw \in WindowFiles \cup CohortFiles : Upload(raw)

NextSummary ==
    \/ UploadSummaryFile
    \/ SetLookback
    \/ SetThreshold
    \/ SetSearch

SpecSummary == InitDefaultEnv /\ [][NextSummary]_vars

\* sessions on one file in which the user moves the filters
UploadFilterFile ==
    /\ file = NoFile
    /\ \E raw \in FilterFiles : Upload(raw)

NextFilter ==
    \/ UploadFilterFile
    \/ SetCourse
    \/ SetOrigin
    \/ SetEvents
    \/ SetDateRange

SpecFilter == InitDefaultEnv /\ [][NextFilter]_vars

\* sessions in which the user uploads files, searches, and sends alerts
UploadAlertFile == \E raw \in AlertFiles : Upload(raw)

NextAlert ==
    \/ UploadAlertFile
    \/ SetOrigin
    \/ SetSearch
    \/ SetCoordMail
    \/ PressSend

SpecAlert == Init /\ [][NextAlert]_vars

----------------------------------------------------------------------------
(* Properties *)

TypeOK ==
    /\ lookback_days \in LookbackChoices
    /\ risk_inactive_days \in RiskChoices
    /\ Len(notif_log) <= MaxLog

Rows == Range(out.summary)

\* C1: every student summary row has active_days <= lookback_days, whatever
\* the window length and the filtered dates (today and today - L included).
C1_ActiveDaysWithinWindow ==
    out.computed => \A r \in Rows : r.active_days <= lookback_days

\* C2: every student gets exactly one status, the one the reference
\* function of (inactive_days, active_days, threshold) gives: AT_RISK if
\* inactive_days > threshold or active_days = 0, else WARNING if
\* active_days <= 2, else ACTIVE; so active_days = 0 is always AT_RISK.
C2_ClassifierMatchesReference ==
    out.computed =>
        \A r \in Rows :
            LET risk == r.inactive_days > risk_inactive_days \/ r.active_days = 0
            IN  /\ r.status \in {AT_RISK, WARNING, ACTIVE}
                /\ risk => r.status = AT_RISK
                /\ ~risk /\ r.active_days <= 2 => r.status = WARNING
                /\ ~risk /\ r.active_days > 2 => r.status = ACTIVE

\* a student inside the inactivity threshold but without an active day is
\* At Risk, next to a student of another status
C2_Witness ==
    /\ out.computed
    /\ \E r \in Rows : /\ r.active_days = 0
                       /\ r.inactive_days <= risk_inactive_days
                       /\ r.status = AT_RISK
    /\ \E r \in Rows : r.status = ACTIVE

IsBlank(s) == s # <<>> /\ \A i \in 1..Len(s) : s[i] = " "

AtRiskShown == {r \in Rows : r.status = AT_RISK}

\* C3: "Send alert" with a whitespace-only coordinator address and at least
\* one At Risk student reports a validation failure and makes no transport
\* call.
C3_BlankCoordinatorRejected ==
    out.button /\ AtRiskShown # {} /\ IsBlank(coord_mail) =>
        /\ "enter_coordinator" \in out.notices
        /\ out.smtp_connects = 0
        /\ out.smtp_sends = 0

\* C4: "Send alert" with no At Risk student reports that there is nothing
\* to send, composes no message, makes no transport call and leaves the
\* notification log unchanged, whatever the address and the SMTP settings.
C4_NothingToSendIsNoOp ==
    [][out'.button /\ {r \in Range(out'.summary) : r.status = AT_RISK} = {} =>
        /\ "nothing_to_notify" \in out'.notices
        /\ out'.msg = <<>>
        /\ out'.smtp_connects = 0
        /\ out'.smtp_sends = 0
        /\ notif_log' = notif_log]_vars

C4_Witness ==
    /\ out.button
    /\ AtRiskShown = {}
    /\ coord_mail # <<>> /\ ~IsBlank(coord_mail)
    /\ smtp_port = PortStartTls
    /\ "nothing_to_notify" \in out.notices

\* C5: with a port other than 587 and 465 the send is rejected before any
\* connection: no SMTP connection, no message sent, no success reported, no
\* log entry appended.
C5_UnsupportedPortRejected ==
    [][out'.button /\ smtp_port' \notin {587, 465} =>
        /\ out'.smtp_connects = 0
        /\ out'.smtp_sends = 0
        /\ "mail_sent" \notin out'.notices
        /\ ok_sends' = ok_sends
        /\ notif_log' = notif_log]_vars

C5_Witness ==
    /\ out.button
    /\ smtp_port \notin {587, 465}
    /\ out.msg # <<>>
    /\ "unsupported_port" \in out.notices

Failures == {"auth_failed", "smtp_error", "ssl_error", "send_failed"}

\* C6: the notification log only grows by appends, an entry is appended
\* only after a send completed without error, each "Send alert" makes at
\* most one transport attempt, a failed send leaves the log as it was, and
\* the number of entries equals the number of successful sends.
C6_LogCountsSuccessfulSends ==
    [][/\ \/ notif_log' = notif_log
          \/ /\ Len(notif_log') = Len(notif_log) + 1
             /\ SubSeq(notif_log', 1, Len(notif_log)) = notif_log
             /\ out'.button
             /\ out'.smtp_sends = 1
             /\ out'.notices \cap Failures = {}
             /\ "mail_sent" \in out'.notices
       /\ out'.smtp_connects <= 1
       /\ out'.smtp_sends <= 1
       /\ out'.notices \cap Failures # {} => notif_log' = notif_log
       /\ Len(notif_log') = ok_sends']_vars

\* a failed send after a successful one
C6_Witness ==
    /\ Len(notif_log) >= 1
    /\ out.button
    /\ out.smtp_connects = 1
    /\ out.notices \cap Failures # {}

\* C7: when the filters select no row the pass stops with the empty-result
\* notice: no summary, no status, and the alert is out of reach (no
\* transport call, no log entry).
C7_EmptyFilterHalts ==
    [][file' # NoFile /\ out'.f = <<>> =>
        /\ out'.halt = "empty"
        /\ "no_data" \in out'.notices
        /\ ~out'.computed
        /\ out'.summary = <<>>
        /\ ~out'.button
        /\ out'.msg = <<>>
        /\ out'.smtp_connects = 0
        /\ out'.smtp_sends = 0
        /\ notif_log' = notif_log
        /\ ~AlertRendered(out')]_vars

\* the filters empty the table after an alert was sent on the same file
C7_Witness ==
    /\ file # NoFile
    /\ out.f = <<>>
    /\ out.halt = "empty"
    /\ notif_log # <<>>

\* the rows of the file that pass the course, date and event filters
PassOtherFilters ==
    SelectSeq(ParseFile(file), LAMBDA r :
        /\ course = All \/ r.ctx = course
        /\ r.Date >= date_range[1] /\ r.Date <= date_range[2]
        /\ selected_events = {} \/ r.event \in selected_events)

Interactive(n) ==
    SelectSeq(PassOtherFilters, LAMBDA r : r.name = n /\ r.Origin # "cli")

\* C8: whatever the filters (origin "(All)" and origin "cli" included), no
\* row with Origin "cli" survives filtering or contributes to a student's
\* total_events, active_days or last_access.
C8_BatchOriginExcluded ==
    /\ \A r \in Range(out.f) : r.Origin # "cli"
    /\ origin = "cli" => out.f = <<>>
    /\ out.computed =>
        \A s \in Rows :
            LET mine == Interactive(s.name)
                days == {r.Date : r \in Range(mine)}
            IN  /\ s.total_events <= Len(mine)
                /\ s.last_access \in days
                /\ s.active_days <= Cardinality(days)
                /\ s.inactive_days >= today - SetMax(days)

\* with origin "(All)" a student of the summary has a cli row that passes
\* every other filter
C8_Witness ==
    /\ out.computed
    /\ origin = All
    /\ \E s \in Rows : \E r \in Range(PassOtherFilters) :
        /\ r.name = s.name
        /\ r.Origin = "cli"
        /\ r.Date > s.last_access

C9_Rank(r) == IF r.status = AT_RISK THEN 0 ELSE IF r.status = WARNING THEN 1 ELSE 2

\* the table the pass would show without the name search
Unsearched ==
    SortSummary(Summarise(out.f, today, lookback_days, risk_inactive_days))

\* C9: the table is ordered by status rank ascending (AT_RISK 0, WARNING 1,
\* ACTIVE 2), ties by inactive_days descending; the name search removes rows
\* without changing the status or the relative order of the others.
C9_TableOrder ==
    out.computed =>
        /\ \A i \in 1..(Len(out.summary) - 1) :
            LET a == out.summary[i]
                b == out.summary[i + 1]
            IN  \/ C9_Rank(a) < C9_Rank(b)
                \/ C9_Rank(a) = C9_Rank(b) /\ a.inactive_days >= b.inactive_days
        /\ out.summary = SelectSeq(Unsearched, LAMBDA r : r \in Rows)

\* a search that removes a row and leaves two rows of one rank that the sort
\* had to order by inactive_days
C9_Witness ==
    /\ out.computed
    /\ Strip(search_name) # <<>>
    /\ Len(out.summary) < Len(Unsearched)
    /\ \E i \in 1..(Len(out.summary) - 1) :
        /\ C9_Rank(out.summary[i]) = C9_Rank(out.summary[i + 1])
        /\ out.summary[i].inactive_days > out.summary[i + 1].inactive_days
        /\ StrLess(out.summary[i + 1].name, out.summary[i].name)

\* C10: a composed alert lists exactly the At Risk rows of the displayed
\* summary (after the name search), each once, and the counts of the subject
\* and of the header equal the number of listed students, which is >= 1.
C10_AlertListsDisplayedAtRisk ==
    out.msg # <<>> =>
        LET m == out.msg[1]
            listed == {m.lines[i].name : i \in 1..Len(m.lines)}
        IN  /\ listed = {r.name : r \in AtRiskShown}
            /\ \A i \in 1..Len(m.lines) : \A j \in 1..Len(m.lines) :
                  m.lines[i].name = m.lines[j].name => i = j
            /\ \A i \in 1..Len(m.lines) : \E r \in AtRiskShown :
                  /\ r.name = m.lines[i].name
                  /\ r.inactive_days = m.lines[i].inactive_days
                  /\ r.active_days = m.lines[i].active_days
            /\ m.subject_count = Len(m.lines)
            /\ m.header_count = Len(m.lines)
            /\ Len(m.lines) >= 1

\* an alert composed while the search hides an At Risk student
C10_Witness ==
    /\ out.msg # <<>>
    /\ Strip(search_name) # <<>>
    /\ \E r \in Range(Unsearched) : r.status = AT_RISK /\ r \notin Rows

====
